---- MODULE Spec2Model ----
(***************************************************************************)
(* A model of go-quickbase's streaming query decoder (DoQueryChan) and of  *)
(* its synchronous API invoker (executeApiCall), src/quickbase.go.         *)
(*                                                                         *)
(* Texts (element content, error messages) are sequences of one-character  *)
(* strings, so that concatenation, comparison with "0", strconv.Atoi and   *)
(* fmt.Errorf are computed and not assumed.                                *)
(***************************************************************************)
EXTENDS Integers, Sequences, FiniteSets, TLC

VARIABLES
    resp,        \* the HTTP response body: its XML tokens and how reading past them ends
    pos,         \* number of tokens the xml.Decoder has handed out
    pc,          \* position of the task that called DoQueryChan
    qb_errcode,  \* local of DoQueryChan, line 462
    qb_errtext,  \* local of DoQueryChan, line 463
    ret,         \* what DoQueryChan returned: (records, err)
    gpc,         \* position of the per-record goroutine, lines 490-528
    heap,        \* the maps allocated by make(map[string]string), by reference
    record,      \* goroutine local: reference into heap (line 493), 0 before it runs
    last_field,  \* goroutine local, line 494
    last_data,   \* goroutine local, line 495
    in_record,   \* goroutine local, line 496
    closeCount,  \* number of close(records) executed
    bodyClosed,  \* number of resp.Body.Close() executed
    completed,   \* number of record end tags the goroutine has processed
    cpc,         \* position of the consumer of the channel
    received,    \* what the consumer received: the map reference, which record element
                 \* completed it, and what the map held at that moment
    observed,    \* what the consumer read in each map it received, in order
    api_in,      \* executeApiCall: the HTTP outcome and the decoded document
    api_pc,      \* executeApiCall: position
    api_ret,     \* executeApiCall: (doc, err)
    q_in,        \* DoQuery: the HTTP outcome and the decoded document with its records
    q_pc,        \* DoQuery: position
    q_ret,       \* DoQuery: (records, err)
    d_in,        \* GetAppDTMInfo: the base URL, the HTTP outcome and the decoded document
    d_pc,        \* GetAppDTMInfo: position
    d_ret        \* GetAppDTMInfo: its five results

chanVars == <<resp, pos, pc, qb_errcode, qb_errtext, ret, gpc, heap, record,
              last_field, last_data, in_record, closeCount, bodyClosed,
              completed, cpc, received, observed>>
apiVars == <<api_in, api_pc, api_ret>>
opsVars == <<q_in, q_pc, q_ret, d_in, d_pc, d_ret>>
vars == <<resp, pos, pc, qb_errcode, qb_errtext, ret, gpc, heap, record,
          last_field, last_data, in_record, closeCount, bodyClosed,
          completed, cpc, received, observed, api_in, api_pc, api_ret,
          q_in, q_pc, q_ret, d_in, d_pc, d_ret>>

----------------------------------------------------------------------------
(* Bounds *)

\* most elements (records or others) in the envelope after its status header
MaxItems == 3
\* longest errcode text handed to executeApiCall
MaxCodeLen == 2

----------------------------------------------------------------------------
(* XML tokens, as encoding/xml's Decoder.Token hands them out *)

StartElement(n) == [type |-> "StartElement", name |-> n, data |-> <<>>]
EndElement(n) == [type |-> "EndElement", name |-> n, data |-> <<>>]
CharData(d) == [type |-> "CharData", name |-> "", data |-> d]
ProcInst == [type |-> "ProcInst", name |-> "xml", data |-> <<>>]
NilToken == [type |-> "nil", name |-> "", data |-> <<>>]

\* an element with text content; an empty element yields no CharData token
Elem(n, d) ==
    IF d = <<>> THEN <<StartElement(n), EndElement(n)>>
    ELSE <<StartElement(n), CharData(d), EndElement(n)>>

RECURSIVE Flatten(_)
Flatten(ss) == IF ss = <<>> THEN <<>> ELSE Head(ss) \o Flatten(Tail(ss))

----------------------------------------------------------------------------
(* Errors *)

NoErr == [type |-> "nil", msg |-> <<>>, code |-> 0]
EOF == [type |-> "io.EOF", msg |-> <<"EOF">>, code |-> 0]
SyntaxError == [type |-> "xml.SyntaxError", msg |-> <<"XML syntax error">>, code |-> 0]
TransportError == [type |-> "url.Error", msg |-> <<"transport">>, code |-> 0]
NumError == [type |-> "strconv.NumError", msg |-> <<"invalid syntax">>, code |-> 0]

\* QuickBaseError, lines 47-54
QuickBaseError(message, code) ==
    [type |-> "QuickBaseError", msg |-> message, code |-> code]

\* fmt.Sprintf(format) with no operands: a verb has nothing to print
RECURSIVE Sprintf(_)
Sprintf(f) ==
    IF f = <<>> THEN <<>>
    ELSE IF Head(f) # "%" THEN <<Head(f)>> \o Sprintf(Tail(f))
    ELSE IF Len(f) = 1 THEN <<"%!(NOVERB)">>
    ELSE IF f[2] = "%" THEN <<"%">> \o Sprintf(Tail(Tail(f)))
    ELSE <<"%!", f[2], "(MISSING)">> \o Sprintf(Tail(Tail(f)))

\* fmt.Errorf(format), as called at lines 477 and 487
Errorf(f) == [type |-> "errors.errorString", msg |-> Sprintf(f), code |-> 0]

\* fmt.Errorf("qdbapi expected; %s found", name), line 460
ErrorfExpected(n) ==
    [type |-> "errors.errorString", msg |-> <<"qdbapi expected; ", n, " found">>, code |-> 0]

----------------------------------------------------------------------------
(* Responses the server may send *)

Zero == <<"0">>
Code50 == <<"5", "0">>
TextOK == <<"o", "k">>
TextBad == <<"b", "%", "d">>

\* the status header of the envelope, before the first record
HeadersOK == { <<>>, Elem("errcode", Zero) \o Elem("errtext", TextOK) }
HeadersErr ==
    { Elem("errcode", Code50) \o Elem("errtext", TextBad),
      Elem("errtext", TextBad) \o Elem("errcode", Code50),
      Elem("errcode", Code50),
      Elem("errcode", <<>>) \o Elem("errtext", TextBad) }

\* record elements
RecAB == <<StartElement("record")>> \o Elem("a", <<"1">>) \o Elem("b", <<"2">>)
             \o <<EndElement("record")>>
RecA == <<StartElement("record")>> \o Elem("a", <<"3">>) \o <<EndElement("record")>>
RecBR == <<StartElement("record"), StartElement("a"), CharData(<<"x">>),
           StartElement("BR"), EndElement("BR"), CharData(<<"y">>),
           EndElement("a"), EndElement("record")>>
\* an error status written after records
ErrItem == Elem("errcode", Code50)

Items == {RecAB, RecA, RecBR, ErrItem}
Bodies == { Flatten(b) : b \in UNION { [1..n -> Items] : n \in 0..MaxItems } }
ShortBodies == { <<>>, RecAB }

Envelope(h, b) == <<StartElement("qdbapi")>> \o h \o b \o <<EndElement("qdbapi")>>

Documents ==
    { Envelope(h, b) : h \in HeadersOK, b \in Bodies }
      \cup { Envelope(h, b) : h \in HeadersErr, b \in ShortBodies }
      \cup { <<ProcInst>> \o Envelope(<<>>, RecA) }
      \cup { Elem("html", TextBad) }

Prefixes(d) == { SubSeq(d, 1, k) : k \in 0..Len(d) }

\* A response is the tokens that arrive and the way reading past them ends:
\* io.EOF, or an error that is not io.EOF (a dropped connection, malformed
\* XML, or - depending on the Go release - "unexpected EOF" inside an
\* unclosed element).
Terms == {"io.EOF", "error"}
Responses == { [toks |-> p, term |-> t] : p \in UNION { Prefixes(d) : d \in Documents },
                                         t \in Terms }

\* decoder.Token(): the next token, or the response's end, which is sticky
Token == IF pos < Len(resp.toks)
         THEN [tok |-> resp.toks[pos + 1], err |-> "nil"]
         ELSE [tok |-> NilToken, err |-> resp.term]
\* the call after that one, lines 470 and 481
Token2 == IF pos + 1 < Len(resp.toks)
          THEN [tok |-> resp.toks[pos + 2], err |-> "nil"]
          ELSE [tok |-> NilToken, err |-> resp.term]
TermErr == IF resp.term = "io.EOF" THEN EOF ELSE SyntaxError

----------------------------------------------------------------------------
(* map[string]string *)

EmptyMap == [k \in {} |-> <<>>]
MapSet(m, k, v) == [x \in (DOMAIN m) \cup {k} |-> IF x = k THEN v ELSE m[x]]

----------------------------------------------------------------------------
(* DoQueryChan, the calling task: lines 450-535 *)

NilRet == [records |-> FALSE, err |-> NoErr]

Return(ch, e) ==
    /\ pc' = "returned"
    /\ ret' = [records |-> ch, err |-> e]

\* lines 451-453: a token error at the outermost level is returned
OuterError ==
    /\ pc = "outer"
    /\ Token.err = "error"
    /\ Return(FALSE, SyntaxError)
    /\ cpc' = "failed"
    /\ UNCHANGED <<resp, pos, qb_errcode, qb_errtext, gpc, heap, record, last_field,
                   last_data, in_record, closeCount, bodyClosed, completed, received,
                   observed, apiVars, opsVars>>

\* line 451 at io.EOF: the loop ends and line 535 panics
OuterEOF ==
    /\ pc = "outer"
    /\ Token.err = "io.EOF"
    /\ pc' = "panicked"
    /\ UNCHANGED <<resp, pos, qb_errcode, qb_errtext, ret, gpc, heap, record,
                   last_field, last_data, in_record, closeCount, bodyClosed,
                   completed, cpc, received,
                   observed, apiVars, opsVars>>

\* lines 455-457: anything that is not a start element is skipped
OuterSkip ==
    /\ pc = "outer"
    /\ Token.err = "nil"
    /\ Token.tok.type # "StartElement"
    /\ pos' = pos + 1
    /\ UNCHANGED <<resp, pc, qb_errcode, qb_errtext, ret, gpc, heap, record,
                   last_field, last_data, in_record, closeCount, bodyClosed,
                   completed, cpc, received,
                   observed, apiVars, opsVars>>

\* lines 459-461
OuterUnexpected ==
    /\ pc = "outer"
    /\ Token.err = "nil"
    /\ Token.tok.type = "StartElement"
    /\ Token.tok.name # "qdbapi"
    /\ pos' = pos + 1
    /\ Return(FALSE, ErrorfExpected(Token.tok.name))
    /\ cpc' = "failed"
    /\ UNCHANGED <<resp, qb_errcode, qb_errtext, gpc, heap, record, last_field,
                   last_data, in_record, closeCount, bodyClosed, completed, received,
                   observed, apiVars, opsVars>>

\* lines 459-464
OuterEnvelope ==
    /\ pc = "outer"
    /\ Token.err = "nil"
    /\ Token.tok.type = "StartElement"
    /\ Token.tok.name = "qdbapi"
    /\ pos' = pos + 1
    /\ pc' = "inner"
    /\ qb_errcode' = FALSE
    /\ qb_errtext' = <<>>
    /\ UNCHANGED <<resp, ret, gpc, heap, record, last_field, last_data, in_record,
                   closeCount, bodyClosed, completed, cpc, received,
                   observed, apiVars, opsVars>>

\* line 465 at io.EOF: the inner loop ends, the outer loop asks for a token again
InnerEOF ==
    /\ pc = "inner"
    /\ Token.err = "io.EOF"
    /\ pc' = "outer"
    /\ UNCHANGED <<resp, pos, qb_errcode, qb_errtext, ret, gpc, heap, record,
                   last_field, last_data, in_record, closeCount, bodyClosed,
                   completed, cpc, received,
                   observed, apiVars, opsVars>>

\* line 465 at another error: err is not tested, the nil token matches no
\* case, and the decoder returns the same error on every further call
InnerSpin ==
    /\ pc = "inner"
    /\ Token.err = "error"
    /\ pc' = "spin"
    /\ UNCHANGED <<resp, pos, qb_errcode, qb_errtext, ret, gpc, heap, record,
                   last_field, last_data, in_record, closeCount, bodyClosed,
                   completed, cpc, received,
                   observed, apiVars, opsVars>>

\* lines 466-468: tokens and elements the switch has no case for
InnerSkip ==
    /\ pc = "inner"
    /\ Token.err = "nil"
    /\ \/ Token.tok.type # "StartElement"
       \/ Token.tok.name \notin {"errcode", "errtext", "record"}
    /\ pos' = pos + 1
    /\ UNCHANGED <<resp, pc, qb_errcode, qb_errtext, ret, gpc, heap, record,
                   last_field, last_data, in_record, closeCount, bodyClosed,
                   completed, cpc, received,
                   observed, apiVars, opsVars>>

\* lines 470-473 and 481-484: the token after the start tag cannot be read
InnerStatusError ==
    /\ pc = "inner"
    /\ Token.err = "nil"
    /\ Token.tok.type = "StartElement"
    /\ Token.tok.name \in {"errcode", "errtext"}
    /\ Token2.err # "nil"
    /\ pos' = pos + 1
    /\ Return(FALSE, TermErr)
    /\ cpc' = "failed"
    /\ UNCHANGED <<resp, qb_errcode, qb_errtext, gpc, heap, record, last_field,
                   last_data, in_record, closeCount, bodyClosed, completed, received,
                   observed, apiVars, opsVars>>

\* lines 474 and 485: token.(xml.CharData) panics on any other token
InnerStatusPanic ==
    /\ pc = "inner"
    /\ Token.err = "nil"
    /\ Token.tok.type = "StartElement"
    /\ Token.tok.name \in {"errcode", "errtext"}
    /\ Token2.err = "nil"
    /\ Token2.tok.type # "CharData"
    /\ pos' = pos + 2
    /\ pc' = "panicked"
    /\ UNCHANGED <<resp, qb_errcode, qb_errtext, ret, gpc, heap, record, last_field,
                   last_data, in_record, closeCount, bodyClosed, completed, cpc,
                   received,
                   observed, apiVars, opsVars>>

\* lines 469-479
InnerErrcode ==
    /\ pc = "inner"
    /\ Token.err = "nil"
    /\ Token.tok.type = "StartElement"
    /\ Token.tok.name = "errcode"
    /\ Token2.err = "nil"
    /\ Token2.tok.type = "CharData"
    /\ pos' = pos + 2
    /\ IF Token2.tok.data # Zero
       THEN /\ qb_errcode' = TRUE
            /\ IF qb_errtext # <<>>
               THEN Return(FALSE, Errorf(qb_errtext)) /\ cpc' = "failed"
               ELSE UNCHANGED <<pc, ret, cpc>>
       ELSE UNCHANGED <<qb_errcode, pc, ret, cpc>>
    /\ UNCHANGED <<resp, qb_errtext, gpc, heap, record, last_field, last_data,
                   in_record, closeCount, bodyClosed, completed, received,
                   observed, apiVars, opsVars>>

\* lines 480-488
InnerErrtext ==
    /\ pc = "inner"
    /\ Token.err = "nil"
    /\ Token.tok.type = "StartElement"
    /\ Token.tok.name = "errtext"
    /\ Token2.err = "nil"
    /\ Token2.tok.type = "CharData"
    /\ pos' = pos + 2
    /\ qb_errtext' = Token2.tok.data
    /\ IF qb_errcode
       THEN Return(FALSE, Errorf(Token2.tok.data)) /\ cpc' = "failed"
       ELSE UNCHANGED <<pc, ret, cpc>>
    /\ UNCHANGED <<resp, qb_errcode, gpc, heap, record, last_field, last_data,
                   in_record, closeCount, bodyClosed, completed, received,
                   observed, apiVars, opsVars>>

\* InnerRecord without the return of line 529: the calling task stays in its
\* loop beside the goroutine
InnerRecord_KeepsReading ==
    /\ pc = "inner"
    /\ Token.err = "nil"
    /\ Token.tok.type = "StartElement"
    /\ Token.tok.name = "record"
    /\ pos' = pos + 1
    /\ UNCHANGED <<pc, ret>>
    /\ cpc' = "receiving"
    /\ gpc' = "read"
    /\ heap' = Append(heap, EmptyMap)
    /\ record' = Len(heap) + 1
    /\ last_field' = ""
    /\ last_data' = <<>>
    /\ in_record' = TRUE
    /\ UNCHANGED <<resp, qb_errcode, qb_errtext, closeCount, bodyClosed, completed,
                   received,
                   observed, apiVars, opsVars>>

\* lines 489-496 and 529: the goroutine is started with its locals and the
\* channel is returned
InnerRecord ==
    /\ pc = "inner"
    /\ Token.err = "nil"
    /\ Token.tok.type = "StartElement"
    /\ Token.tok.name = "record"
    /\ pos' = pos + 1
    /\ Return(TRUE, NoErr)
    /\ cpc' = "receiving"
    /\ gpc' = "read"
    /\ heap' = Append(heap, EmptyMap)
    /\ record' = Len(heap) + 1
    /\ last_field' = ""
    /\ last_data' = <<>>
    /\ in_record' = TRUE
    /\ UNCHANGED <<resp, qb_errcode, qb_errtext, closeCount, bodyClosed, completed,
                   received,
                   observed, apiVars, opsVars>>

----------------------------------------------------------------------------
(* DoQueryChan, the per-record goroutine: lines 490-528 *)

\* RecordTask with a stray element taken for the start of a record
RecordTask_StrayGoesOn(m, field, data, inrec, tok) ==
    LET same == [m |-> m, last_field |-> field, last_data |-> data,
                 in_record |-> inrec, ctl |-> "next"]
    IN  CASE tok.type = "StartElement" ->
                 IF inrec
                 THEN [same EXCEPT !.last_data = <<>>, !.last_field = tok.name]
                 ELSE [same EXCEPT !.in_record = TRUE]
          [] tok.type = "EndElement" ->
                 IF ~inrec /\ tok.name = "qdbapi"
                 THEN [same EXCEPT !.ctl = "close"]
                 ELSE IF inrec /\ tok.name = "record"
                 THEN [same EXCEPT !.in_record = FALSE, !.ctl = "send"]
                 ELSE [same EXCEPT !.m = MapSet(m, field, data), !.last_field = ""]
          [] tok.type = "CharData" ->
                 [same EXCEPT !.last_data = data \o tok.data]
          [] OTHER -> same

\* RecordTask with a completed record not waited for (a send that gives up
\* when no receiver is ready)
RecordTask_NoWait(m, field, data, inrec, tok) ==
    LET same == [m |-> m, last_field |-> field, last_data |-> data,
                 in_record |-> inrec, ctl |-> "next"]
    IN  CASE tok.type = "StartElement" ->
                 IF inrec
                 THEN [same EXCEPT !.last_data = <<>>, !.last_field = tok.name]
                 ELSE IF tok.name # "record"
                 THEN [same EXCEPT !.ctl = "close"]
                 ELSE [same EXCEPT !.in_record = TRUE]
          [] tok.type = "EndElement" ->
                 IF ~inrec /\ tok.name = "qdbapi"
                 THEN [same EXCEPT !.ctl = "close"]
                 ELSE IF inrec /\ tok.name = "record"
                 THEN [same EXCEPT !.in_record = FALSE]
                 ELSE [same EXCEPT !.m = MapSet(m, field, data), !.last_field = ""]
          [] tok.type = "CharData" ->
                 [same EXCEPT !.last_data = data \o tok.data]
          [] OTHER -> same

\* One turn of the loop at line 498 on a token: the goroutine's locals after
\* it (m is the content of the map record refers to) and what it does next:
\* "next" asks for another token, "send" is records <- record (line 518),
\* "close" is close(records); break record (lines 506-507 and 514-515).
RecordTask(m, field, data, inrec, tok) ==
    LET same == [m |-> m, last_field |-> field, last_data |-> data,
                 in_record |-> inrec, ctl |-> "next"]
    IN  CASE tok.type = "StartElement" ->
                 IF inrec
                 THEN [same EXCEPT !.last_data = <<>>, !.last_field = tok.name]
                 ELSE IF tok.name # "record"
                 THEN [same EXCEPT !.ctl = "close"]
                 ELSE [same EXCEPT !.in_record = TRUE]
          [] tok.type = "EndElement" ->
                 IF ~inrec /\ tok.name = "qdbapi"
                 THEN [same EXCEPT !.ctl = "close"]
                 ELSE IF inrec /\ tok.name = "record"
                 THEN [same EXCEPT !.in_record = FALSE, !.ctl = "send"]
                 ELSE [same EXCEPT !.m = MapSet(m, field, data), !.last_field = ""]
          [] tok.type = "CharData" ->
                 [same EXCEPT !.last_data = data \o tok.data]
          [] OTHER -> same

Turn == RecordTask(heap[record], last_field, last_data, in_record, Token.tok)

\* the end tag of a record element the goroutine is inside of
EndsRecord == in_record /\ Token.tok = EndElement("record")

\* TaskToken with close(records) not followed by break: the loop goes on
TaskToken_NoBreak ==
    /\ gpc = "read"
    /\ Token.err = "nil"
    /\ pos' = pos + 1
    /\ heap' = [heap EXCEPT ![record] = Turn.m]
    /\ last_field' = Turn.last_field
    /\ last_data' = Turn.last_data
    /\ in_record' = Turn.in_record
    /\ completed' = completed + (IF EndsRecord THEN 1 ELSE 0)
    /\ gpc' = CASE Turn.ctl = "send" -> "send"
                [] Turn.ctl = "close" -> "read"
                [] OTHER -> "read"
    /\ closeCount' = closeCount + (IF Turn.ctl = "close" THEN 1 ELSE 0)
    /\ bodyClosed' = bodyClosed
    /\ UNCHANGED <<resp, pc, qb_errcode, qb_errtext, ret, record, cpc, received,
                   observed, apiVars, opsVars>>

\* lines 498-525 on a token; with "close" the loop is left and the deferred
\* resp.Body.Close() of line 491 runs
TaskToken ==
    /\ gpc = "read"
    /\ Token.err = "nil"
    /\ pos' = pos + 1
    /\ heap' = [heap EXCEPT ![record] = Turn.m]
    /\ last_field' = Turn.last_field
    /\ last_data' = Turn.last_data
    /\ in_record' = Turn.in_record
    /\ completed' = completed + (IF EndsRecord THEN 1 ELSE 0)
    /\ gpc' = CASE Turn.ctl = "send" -> "send"
                [] Turn.ctl = "close" -> "exited"
                [] OTHER -> "read"
    /\ closeCount' = closeCount + (IF Turn.ctl = "close" THEN 1 ELSE 0)
    /\ bodyClosed' = bodyClosed + (IF Turn.ctl = "close" THEN 1 ELSE 0)
    /\ UNCHANGED <<resp, pc, qb_errcode, qb_errtext, ret, record, cpc, received,
                   observed, apiVars, opsVars>>

\* line 498 at io.EOF: the loop ends without close(records); the deferred
\* resp.Body.Close() runs
TaskEOF ==
    /\ gpc = "read"
    /\ Token.err = "io.EOF"
    /\ gpc' = "exited"
    /\ bodyClosed' = bodyClosed + 1
    /\ UNCHANGED <<resp, pos, pc, qb_errcode, qb_errtext, ret, heap, record,
                   last_field, last_data, in_record, closeCount, completed, cpc,
                   received,
                   observed, apiVars, opsVars>>

\* line 498 at another error: err is not tested, the nil token matches no
\* case, and the decoder returns the same error on every further call
TaskSpin ==
    /\ gpc = "read"
    /\ Token.err = "error"
    /\ gpc' = "spin"
    /\ UNCHANGED <<resp, pos, pc, qb_errcode, qb_errtext, ret, heap, record,
                   last_field, last_data, in_record, closeCount, bodyClosed,
                   completed, cpc, received,
                   observed, apiVars, opsVars>>

----------------------------------------------------------------------------
(* The consumer of the channel DoQueryChan returned *)

\* line 518 meets a receive: the channel is unbuffered (line 411), the send
\* completes only with a receiver, who gets the reference to the map
Receive ==
    /\ gpc = "send"
    /\ cpc = "receiving"
    /\ received' = Append(received, [ref |-> record, ord |-> completed,
                                      seen |-> heap[record]])
    /\ gpc' = "read"
    /\ cpc' = "reading"
    /\ UNCHANGED <<resp, pos, pc, qb_errcode, qb_errtext, ret, heap, record,
                   last_field, last_data, in_record, closeCount, bodyClosed,
                   completed,
                   observed, apiVars, opsVars>>

\* the consumer reads the map it received, then receives again (the loop of
\* a range over the channel); the map is the one the goroutine holds (line 493)
Read ==
    /\ cpc = "reading"
    /\ observed' = Append(observed, heap[received[Len(received)].ref])
    /\ cpc' = "receiving"
    /\ UNCHANGED <<resp, pos, pc, qb_errcode, qb_errtext, ret, gpc, heap, record,
                   last_field, last_data, in_record, closeCount, bodyClosed,
                   completed, received, apiVars, opsVars>>

\* a receive on the closed channel
ObserveClose ==
    /\ cpc = "receiving"
    /\ closeCount > 0
    /\ cpc' = "closed"
    /\ UNCHANGED <<resp, pos, pc, qb_errcode, qb_errtext, ret, gpc, heap, record,
                   last_field, last_data, in_record, closeCount, bodyClosed,
                   completed, received,
                   observed, apiVars, opsVars>>

\* the consumer stops receiving
Abandon ==
    /\ cpc = "receiving"
    /\ closeCount = 0
    /\ cpc' = "abandoned"
    /\ UNCHANGED <<resp, pos, pc, qb_errcode, qb_errtext, ret, gpc, heap, record,
                   last_field, last_data, in_record, closeCount, bodyClosed,
                   completed, received,
                   observed, apiVars, opsVars>>

----------------------------------------------------------------------------
(* executeApiCall: lines 91-137 *)

Digits == {"0", "1", "2", "3", "4", "5", "6", "7", "8", "9"}
DigitVal(ch) == CASE ch = "0" -> 0 [] ch = "1" -> 1 [] ch = "2" -> 2 [] ch = "3" -> 3
                  [] ch = "4" -> 4 [] ch = "5" -> 5 [] ch = "6" -> 6 [] ch = "7" -> 7
                  [] ch = "8" -> 8 [] ch = "9" -> 9

\* strconv.Atoi on a text short enough for its fast path (under 10 characters)
RECURSIVE AtoiDigits(_, _)
AtoiDigits(s, n) ==
    IF s = <<>> THEN [n |-> n, ok |-> TRUE]
    ELSE IF Head(s) \notin Digits THEN [n |-> 0, ok |-> FALSE]
    ELSE AtoiDigits(Tail(s), n * 10 + DigitVal(Head(s)))

Atoi(s) ==
    IF s = <<>> THEN [n |-> 0, ok |-> FALSE]
    ELSE IF Head(s) \in {"-", "+"}
    THEN IF Len(s) < 2 THEN [n |-> 0, ok |-> FALSE]
         ELSE LET r == AtoiDigits(Tail(s), 0)
              IN  IF Head(s) = "-" THEN [n |-> 0 - r.n, ok |-> r.ok] ELSE r
    ELSE AtoiDigits(s, 0)

NilDoc == [nil |-> TRUE, errcode |-> <<>>, errtext |-> <<>>]
Doc(code, text) == [nil |-> FALSE, errcode |-> code, errtext |-> text]

\* executeApiCall with the error's Code left at its zero value
executeApiCall_CodeUnset(in) ==
    IF in.http = "transport" THEN [doc |-> NilDoc, err |-> TransportError]
    ELSE IF in.http = "malformed" THEN [doc |-> NilDoc, err |-> SyntaxError]
    ELSE IF in.doc.errcode # Zero
    THEN IF ~Atoi(in.doc.errcode).ok
         THEN [doc |-> NilDoc, err |-> NumError]
         ELSE [doc |-> NilDoc, err |-> QuickBaseError(in.doc.errtext, 0)]
    ELSE [doc |-> in.doc, err |-> NoErr]

\* lines 114-136. in.http is how client.Do and doc.LoadStream end; in.doc is
\* the decoded document, seen through SelectNode("", name).GetValue()
executeApiCall(in) ==
    IF in.http = "transport" THEN [doc |-> NilDoc, err |-> TransportError]
    ELSE IF in.http = "malformed" THEN [doc |-> NilDoc, err |-> SyntaxError]
    ELSE IF in.doc.errcode # Zero
    THEN IF ~Atoi(in.doc.errcode).ok
         THEN [doc |-> NilDoc, err |-> NumError]
         ELSE [doc |-> NilDoc,
               err |-> QuickBaseError(in.doc.errtext, Atoi(in.doc.errcode).n)]
    ELSE [doc |-> in.doc, err |-> NoErr]

CodeChars == {"0", "1", "5", "-", "+", "x"}
CodeTexts == UNION { [1..n -> CodeChars] : n \in 0..MaxCodeLen }
ErrTexts == { <<>>, TextOK, TextBad }
ApiInputs ==
    { [http |-> "ok", doc |-> Doc(c, t)] : c \in CodeTexts, t \in ErrTexts }
      \cup { [http |-> h, doc |-> NilDoc] : h \in {"transport", "malformed"} }

ApiCall ==
    /\ api_pc = "ready"
    /\ api_pc' = "done"
    /\ api_ret' = executeApiCall(api_in)
    /\ UNCHANGED api_in
    /\ UNCHANGED chanVars
    /\ UNCHANGED opsVars

----------------------------------------------------------------------------
(* DoQuery: lines 353-403 *)

MaxRecs == 2

CR == "\r"

\* xmlx nodes as DoQuery reads them: Type, Name.Local, Value, Children
TextNode(v) == [type |-> "NT_TEXT", name |-> "", value |-> v, children |-> <<>>]
ElementNode(n, ch) == [type |-> "NT_ELEMENT", name |-> n, value |-> <<>>, children |-> ch]
CommentNode == [type |-> "NT_COMMENT", name |-> "", value |-> <<"c">>, children |-> <<>>]

\* fmt.Errorf("Cannot handle tag %s within value for field %s", ...), line 392
ErrorfTag(tag, field) ==
    [type |-> "errors.errorString",
     msg |-> <<"Cannot handle tag ", tag, " within value for field ", field>>,
     code |-> 0]

\* fmt.Errorf("Cannot handle non-text, non-element within value for field %s", ...), line 395
ErrorfNonText(field) ==
    [type |-> "errors.errorString",
     msg |-> <<"Cannot handle non-text, non-element within value for field ", field>>,
     code |-> 0]

\* record_map[key] += v, lines 386 and 390: a key not in the map reads as ""
MapAppend(m, key, v) ==
    MapSet(m, key, (IF key \in DOMAIN m THEN m[key] ELSE <<>>) \o v)

\* lines 384-397 over the grandchildren of one child, from the k-th on
RECURSIVE QueryField(_, _, _)
QueryField(m, child, k) ==
    IF k > Len(child.children) THEN [m |-> m, err |-> NoErr]
    ELSE LET grandchild == child.children[k]
         IN  IF grandchild.type = "NT_TEXT"
             THEN QueryField(MapAppend(m, child.name, grandchild.value), child, k + 1)
             ELSE IF grandchild.type = "NT_ELEMENT"
             THEN IF grandchild.name = "BR"
                  THEN QueryField(MapAppend(m, child.name, <<CR>>), child, k + 1)
                  ELSE [m |-> m, err |-> ErrorfTag(grandchild.name, child.name)]
             ELSE [m |-> m, err |-> ErrorfNonText(child.name)]

\* lines 376-398 over the children of one record, from the j-th on
RECURSIVE QueryRecord(_, _, _)
QueryRecord(m, rec, j) ==
    IF j > Len(rec.children) THEN [m |-> m, err |-> NoErr]
    ELSE LET r == QueryField(m, rec.children[j], 1)
         IN  IF r.err # NoErr THEN r ELSE QueryRecord(r.m, rec, j + 1)

\* lines 374-401 over the record nodes, from the i-th on; a nil slice is <<>>
RECURSIVE QueryRecords(_, _, _)
QueryRecords(records, nodes, i) ==
    IF i > Len(nodes) THEN [records |-> records, err |-> NoErr]
    ELSE LET r == QueryRecord(EmptyMap, nodes[i], 1)
         IN  IF r.err # NoErr THEN [records |-> <<>>, err |-> r.err]
             ELSE QueryRecords(Append(records, r.m), nodes, i + 1)

\* lines 370-402. in.records is doc.SelectNodes("", "record")
DoQuery(in) ==
    LET call == executeApiCall([http |-> in.http, doc |-> in.doc])
    IN  IF call.err # NoErr THEN [records |-> <<>>, err |-> call.err]
        ELSE QueryRecords(<<>>, in.records, 1)

Field(n, ch) == ElementNode(n, ch)
QPlain == ElementNode("record", <<Field("a", <<TextNode(<<"1">>)>>),
                                  Field("b", <<TextNode(<<"2">>)>>)>>)
QLines == ElementNode("record", <<Field("a", <<TextNode(<<"x">>), ElementNode("BR", <<>>),
                                               TextNode(<<"y">>)>>)>>)
QBlank == ElementNode("record", <<Field("a", <<ElementNode("BR", <<>>), ElementNode("BR", <<>>),
                                               TextNode(<<"y">>)>>),
                                  Field("b", <<>>)>>)
QSame == ElementNode("record", <<Field("a", <<TextNode(<<"1">>)>>),
                                 Field("a", <<TextNode(<<"2">>)>>)>>)
QSameEmpty == ElementNode("record", <<Field("a", <<TextNode(<<"1">>)>>),
                                      Field("a", <<>>)>>)
QTag == ElementNode("record", <<Field("a", <<TextNode(<<"x">>), ElementNode("i", <<>>)>>)>>)
QComment == ElementNode("record", <<Field("a", <<CommentNode>>)>>)
QSpace == ElementNode("record", <<TextNode(<<" ">>), Field("a", <<TextNode(<<"1">>)>>)>>)
QRecords == {QPlain, QLines, QBlank, QSame, QSameEmpty, QTag, QComment, QSpace}
QueryInputs ==
    { [http |-> "ok", doc |-> Doc(c, t), records |-> rs] :
          c \in {Zero, Code50, <<"x">>}, t \in {<<>>, TextOK},
          rs \in UNION { [1..n -> QRecords] : n \in 0..MaxRecs } }
      \cup { [http |-> h, doc |-> NilDoc, records |-> <<>>] : h \in {"transport", "malformed"} }

QueryCall ==
    /\ q_pc = "ready"
    /\ q_pc' = "done"
    /\ q_ret' = DoQuery(q_in)
    /\ UNCHANGED <<q_in, d_in, d_pc, d_ret>>
    /\ UNCHANGED chanVars
    /\ UNCHANGED apiVars

----------------------------------------------------------------------------
(* GetAppDTMInfo: lines 176-250, and selectNodeToTime: lines 256-271 *)

MaxTables == 2

\* Go's integer division and remainder truncate toward zero
Quot(a, b) == IF a >= 0 THEN a \div b ELSE 0 - ((0 - a) \div b)
Rem(a, b) == a - b * Quot(a, b)

\* time.Time: the zero value, and what time.Unix builds (nsec brought into
\* [0, 1e9)); the instants used here are far from the zero value's year 1
ZeroTime == [unix |-> FALSE, sec |-> 0, nsec |-> 0]
Unix(sec, nsec) ==
    IF nsec < 0 THEN [unix |-> TRUE, sec |-> sec - 1, nsec |-> nsec + 1000000000]
    ELSE [unix |-> TRUE, sec |-> sec, nsec |-> nsec]

\* what root.SelectNode("", name) finds: nil, or a node with its GetValue()
NoNode == [present |-> FALSE, value |-> <<>>]
Node(v) == [present |-> TRUE, value |-> v]

\* strconv.ParseInt(s, 10, 64) on a text of under 10 characters, where it
\* reads the same numerals as strconv.Atoi
ParseInt(s) == Atoi(s)

\* fmt.Errorf("Tag named %s not found", name), line 263
ErrorfNotFound(name) ==
    [type |-> "errors.errorString", msg |-> <<"Tag named ", name, " not found">>,
     code |-> 0]

\* lines 256-271, on the node root.SelectNode("", name) found
selectNodeToTime(node, name) ==
    IF ~node.present THEN [t |-> ZeroTime, err |-> ErrorfNotFound(name)]
    ELSE IF ~ParseInt(node.value).ok THEN [t |-> ZeroTime, err |-> NumError]
    ELSE LET msecs == ParseInt(node.value).n
         IN  [t |-> Unix(Quot(msecs, 1000), Rem(msecs, 1000) * 1000), err |-> NoErr]

\* SchemaModification, lines 166-170
SchemaModification(dbid, schema, rec) ==
    [Dbid |-> dbid, SchemaModified |-> schema, RecordModified |-> rec]

\* the results of GetAppDTMInfo at their zero values
DTMZero ==
    [received |-> ZeroTime, nextAllowed |-> ZeroTime,
     schemaModification |-> SchemaModification("", ZeroTime, ZeroTime),
     tableModification |-> <<>>, err |-> NoErr]

\* lines 232-248 over the table nodes, from the k-th on; r holds the named results
RECURSIVE DTMTables(_, _, _)
DTMTables(r, tables, k) ==
    IF k > Len(tables) THEN r
    ELSE LET table == tables[k]
             schemaMod == selectNodeToTime(table.lastModifiedTime, "lastModifiedTime")
             lastRecMod == selectNodeToTime(table.lastRecModTime, "lastRecModTime")
         IN  IF table.id = ""
             THEN [r EXCEPT !.err = Errorf(<<"Missing table dbid in table">>)]
             ELSE IF schemaMod.err # NoErr THEN [r EXCEPT !.err = schemaMod.err]
             ELSE IF lastRecMod.err # NoErr THEN [r EXCEPT !.err = lastRecMod.err]
             ELSE DTMTables(
                      [r EXCEPT !.tableModification =
                           Append(@, SchemaModification(table.id, schemaMod.t, lastRecMod.t))],
                      tables, k + 1)

\* lines 176-250. in.url is how url.Parse ends; in.http and in.doc are
\* executeApiCall's input; the rest is what SelectNode and the id attributes give
GetAppDTMInfo(in) ==
    IF in.url = "bad" THEN [DTMZero EXCEPT !.err = TransportError]
    ELSE
    LET call == executeApiCall([http |-> in.http, doc |-> in.doc])
        rt == selectNodeToTime(in.RequestTime, "RequestTime")
        r1 == [DTMZero EXCEPT !.received = rt.t, !.err = rt.err]
        na == selectNodeToTime(in.RequestNextAllowedTime, "RequestNextAllowedTime")
        r2 == [r1 EXCEPT !.nextAllowed = na.t, !.err = na.err]
        sm == selectNodeToTime(in.app.lastModifiedTime, "lastModifiedTime")
        r3 == [r2 EXCEPT !.schemaModification.Dbid = in.app.id,
                         !.schemaModification.SchemaModified = sm.t,
                         !.err = sm.err]
        rm == selectNodeToTime(in.app.lastRecModTime, "lastRecModTime")
        r4 == [r3 EXCEPT !.schemaModification.RecordModified = rm.t, !.err = rm.err]
    IN  IF call.err # NoErr THEN [DTMZero EXCEPT !.err = call.err]
        ELSE IF rt.err # NoErr THEN r1
        ELSE IF na.err # NoErr THEN r2
        ELSE IF ~in.app.present THEN [r2 EXCEPT !.err = Errorf(<<"No app returned">>)]
        ELSE IF in.app.id = "" THEN [r2 EXCEPT !.err = Errorf(<<"Missing table dbid in app">>)]
        ELSE IF sm.err # NoErr THEN r3
        ELSE IF rm.err # NoErr THEN r4
        ELSE IF ~in.tables.present THEN [r4 EXCEPT !.err = Errorf(<<"No tables returned">>)]
        ELSE DTMTables(r4, in.tables.list, 1)

TimeGood == Node(<<"1", "5", "0", "0">>)
TimeBefore == Node(<<"-", "1", "5", "0", "0">>)
TimeBad == Node(<<"x">>)
TimeNodes == {NoNode, TimeGood, TimeBad}
TableNode(id, schema, rec) ==
    [present |-> TRUE, id |-> id, lastModifiedTime |-> schema, lastRecModTime |-> rec]
NoApp == [present |-> FALSE, id |-> "", lastModifiedTime |-> NoNode, lastRecModTime |-> NoNode]
TableNodes ==
    { TableNode("t", TimeGood, TimeBefore), TableNode("", TimeGood, TimeGood),
      TableNode("t", TimeBad, TimeGood), TableNode("t", TimeGood, NoNode) }
AppNodes == {NoApp} \cup TableNodes
NoTables == [present |-> FALSE, list |-> <<>>]
TablesNodes ==
    {NoTables} \cup { [present |-> TRUE, list |-> l] :
                          l \in UNION { [1..n -> TableNodes] : n \in 0..MaxTables } }
DTMInputs ==
    { [url |-> u, http |-> h.http, doc |-> h.doc, RequestTime |-> rt,
       RequestNextAllowedTime |-> na, app |-> a, tables |-> ts] :
          u \in {"ok", "bad"},
          h \in { [http |-> "ok", doc |-> Doc(Zero, TextOK)],
                  [http |-> "ok", doc |-> Doc(Code50, TextOK)],
                  [http |-> "transport", doc |-> NilDoc] },
          rt \in TimeNodes, na \in TimeNodes, a \in AppNodes, ts \in TablesNodes }

DTMCall ==
    /\ d_pc = "ready"
    /\ d_pc' = "done"
    /\ d_ret' = GetAppDTMInfo(d_in)
    /\ UNCHANGED <<d_in, q_in, q_pc, q_ret>>
    /\ UNCHANGED chanVars
    /\ UNCHANGED apiVars

----------------------------------------------------------------------------
(* Specifications *)

ChanIdle ==
    /\ resp = [toks |-> <<>>, term |-> "io.EOF"]
    /\ pos = 0
    /\ pc = "idle"
    /\ qb_errcode = FALSE
    /\ qb_errtext = <<>>
    /\ ret = NilRet
    /\ gpc = "none"
    /\ heap = <<>>
    /\ record = 0
    /\ last_field = ""
    /\ last_data = <<>>
    /\ in_record = FALSE
    /\ closeCount = 0
    /\ bodyClosed = 0
    /\ completed = 0
    /\ cpc = "waiting"
    /\ received = <<>>
    /\ observed = <<>>

ApiIdle ==
    /\ api_in = [http |-> "transport", doc |-> NilDoc]
    /\ api_pc = "idle"
    /\ api_ret = [doc |-> NilDoc, err |-> NoErr]

QueryIdle ==
    /\ q_in = [http |-> "transport", doc |-> NilDoc, records |-> <<>>]
    /\ q_pc = "idle"
    /\ q_ret = [records |-> <<>>, err |-> NoErr]

DTMIdle ==
    /\ d_in = [url |-> "bad", http |-> "transport", doc |-> NilDoc,
               RequestTime |-> NoNode, RequestNextAllowedTime |-> NoNode,
               app |-> NoApp, tables |-> NoTables]
    /\ d_pc = "idle"
    /\ d_ret = DTMZero

\* DoQueryChan after client.Do (line 445) has returned the response
Init ==
    /\ resp \in Responses
    /\ pos = 0
    /\ pc = "outer"
    /\ qb_errcode = FALSE
    /\ qb_errtext = <<>>
    /\ ret = NilRet
    /\ gpc = "none"
    /\ heap = <<>>
    /\ record = 0
    /\ last_field = ""
    /\ last_data = <<>>
    /\ in_record = FALSE
    /\ closeCount = 0
    /\ bodyClosed = 0
    /\ completed = 0
    /\ cpc = "waiting"
    /\ received = <<>>
    /\ observed = <<>>
    /\ ApiIdle
    /\ QueryIdle
    /\ DTMIdle

Caller ==
    \/ OuterError
    \/ OuterEOF
    \/ OuterSkip
    \/ OuterUnexpected
    \/ OuterEnvelope
    \/ InnerEOF
    \/ InnerSpin
    \/ InnerSkip
    \/ InnerStatusError
    \/ InnerStatusPanic
    \/ InnerErrcode
    \/ InnerErrtext
    \/ InnerRecord

Task == TaskToken \/ TaskEOF \/ TaskSpin

Consumer == Receive \/ Read \/ ObserveClose

Next == Caller \/ Task \/ Consumer \/ Abandon

Spec == Init /\ [][Next]_vars

\* The Go scheduler runs every runnable goroutine; a consumer that has not
\* abandoned the channel keeps receiving.
FairSpec == Spec /\ WF_vars(Caller) /\ WF_vars(Task) /\ WF_vars(Consumer)

\* executeApiCall on every outcome of the HTTP exchange
InitApi ==
    /\ ChanIdle
    /\ api_in \in ApiInputs
    /\ api_pc = "ready"
    /\ api_ret = [doc |-> NilDoc, err |-> NoErr]
    /\ QueryIdle
    /\ DTMIdle

NextApi == ApiCall

SpecApi == InitApi /\ [][NextApi]_vars

\* DoQuery, or GetAppDTMInfo, on every outcome of the HTTP exchange
InitOps ==
    /\ ChanIdle
    /\ ApiIdle
    /\ \/ /\ q_in \in QueryInputs
          /\ q_pc = "ready"
          /\ q_ret = [records |-> <<>>, err |-> NoErr]
          /\ DTMIdle
       \/ /\ QueryIdle
          /\ d_in \in DTMInputs
          /\ d_pc = "ready"
          /\ d_ret = DTMZero

NextOps == QueryCall \/ DTMCall

SpecOps == InitOps /\ [][NextOps]_vars

----------------------------------------------------------------------------
(* What a response contains, read off its tokens *)

\* number of elements open after the first i tokens
Depth(toks, i) ==
    Cardinality({ j \in 1..i : toks[j].type = "StartElement" })
      - Cardinality({ j \in 1..i : toks[j].type = "EndElement" })

\* the record elements of the envelope: where they start and where they end
RecordStarts(toks) ==
    { i \in 1..Len(toks) : toks[i] = StartElement("record") /\ Depth(toks, i - 1) = 1 }
RecordEnds(toks) ==
    { i \in 1..Len(toks) : toks[i] = EndElement("record") /\ Depth(toks, i) = 1 }

\* errcode elements of the envelope with their text, before any record
ErrcodesBeforeRecords(toks) ==
    { i \in 1..(Len(toks) - 1) :
        /\ toks[i] = StartElement("errcode")
        /\ Depth(toks, i - 1) = 1
        /\ toks[i + 1].type = "CharData"
        /\ \A j \in RecordStarts(toks) : i < j }
ErrtextsBeforeRecords(toks) ==
    { i \in 1..(Len(toks) - 1) :
        /\ toks[i] = StartElement("errtext")
        /\ Depth(toks, i - 1) = 1
        /\ toks[i + 1].type = "CharData"
        /\ \A j \in RecordStarts(toks) : i < j }

\* the whole document arrived: a qdbapi envelope, closed, then end of input
Complete(r) ==
    /\ r.term = "io.EOF"
    /\ Len(r.toks) > 0
    /\ Depth(r.toks, Len(r.toks)) = 0
    /\ \E i \in 1..Len(r.toks) :
          /\ r.toks[i] = StartElement("qdbapi")
          /\ \A j \in 1..(i - 1) : r.toks[j].type = "ProcInst"

\* a well-formed response whose errcode is 0
WellFormedOK(r) ==
    /\ Complete(r)
    /\ ErrcodesBeforeRecords(r.toks) # {}
    /\ \A i \in 1..Len(r.toks) :
          r.toks[i] = StartElement("errcode") => r.toks[i + 1] = CharData(Zero)

\* the envelope's elements other than record that follow a complete record
Strays(toks) ==
    { i \in 1..Len(toks) :
        /\ toks[i].type = "StartElement"
        /\ toks[i].name # "record"
        /\ Depth(toks, i - 1) = 1
        /\ \E j \in RecordEnds(toks) : j < i }

InOrder == \A i \in 1..Len(received) : received[i].ord = i

----------------------------------------------------------------------------
(* Claims about DoQueryChan *)

\* C1: for a well-formed response with errcode 0 and N record elements, N >= 0,
\* DoQueryChan returns a channel and a nil error, the consumer receives the N
\* records in the order of their elements and then sees the channel closed.
\* (The safety half: the call does not panic, what it returns is a channel and
\* no error, records arrive in order, and a closed channel delivered all N.)
C1_NRecordsThenClosed ==
    WellFormedOK(resp) =>
        /\ pc # "panicked"
        /\ pc = "returned" => (ret.records /\ ret.err = NoErr)
        /\ InOrder
        /\ Len(received) <= Cardinality(RecordStarts(resp.toks))
        /\ cpc = "closed" => Len(received) = Cardinality(RecordStarts(resp.toks))

\* C2: when an errcode element whose text is not "0" comes before any record
\* start tag, DoQueryChan returns a nil channel and a non-nil error and no
\* record is ever emitted, with errtext before, after or missing.
C2_ErrorBeforeRecordsFails ==
    (\E i \in ErrcodesBeforeRecords(resp.toks) : resp.toks[i + 1].data # Zero) =>
        /\ pc = "returned" => (~ret.records /\ ret.err # NoErr)
        /\ gpc = "none"
        /\ received = <<>>

\* C3: when the stream ends after k complete records and before the
\* envelope's closing tag, the consumer receives k records and then sees the
\* channel closed. (Once the goroutine has stopped reading, by leaving its
\* loop or by spinning on the error, the channel has been closed.)
C3_TruncatedStreamCloses ==
    (/\ RecordEnds(resp.toks) # {}
     /\ Depth(resp.toks, Len(resp.toks)) > 0
     /\ gpc \in {"exited", "spin"})
        => closeCount = 1

\* C4: on every terminal path of DoQueryChan the response body is closed
\* exactly once.
C4_BodyClosedOnce ==
    /\ bodyClosed <= 1
    /\ (pc = "returned" /\ ret.err # NoErr) => bodyClosed = 1
    /\ gpc = "exited" => bodyClosed = 1

\* C5: when the goroutine meets an element other than record after a record
\* has been emitted, the records received stand, no further record is emitted
\* (no further token is read), the channel is closed and neither the caller
\* nor the consumer is given an error.
C5_StrayElementEndsStream ==
    \A i \in Strays(resp.toks) :
        (gpc # "none" /\ pos >= i) =>
            /\ pos = i
            /\ \A j \in Strays(resp.toks) : i <= j
            /\ gpc = "exited"
            /\ closeCount = 1
            /\ ret = [records |-> TRUE, err |-> NoErr]
            /\ InOrder
            /\ Len(received) = Cardinality({ j \in RecordEnds(resp.toks) : j < i })

\* C5's case: a stray element after a received record, with a record element
\* after it that is never emitted, and the consumer has seen the end
C5_Witness ==
    \E i \in Strays(resp.toks) :
        /\ pos = i
        /\ \E j \in RecordStarts(resp.toks) : j > i
        /\ Len(received) >= 1
        /\ cpc = "closed"

\* C6: a record map the consumer has received is never written again by the
\* producer.
C6_ReceivedMapNotWritten ==
    [][\A i \in 1..Len(received) : heap'[received[i].ref] = heap[received[i].ref]]_vars

\* C7: after completing a record the goroutine reads no token until the
\* consumer has received it: at most one completed record awaits receipt, and
\* records are received in the order of their elements.
C7_OneInFlight ==
    /\ [](/\ completed - Len(received) \in {0, 1}
          /\ (completed > Len(received)) <=> (gpc = "send")
          /\ InOrder)
    /\ [][gpc = "send" => pos' = pos]_vars

\* C7's case: two records received and a third completed, awaiting receipt
C7_Witness ==
    /\ Len(received) = 2
    /\ completed = 3
    /\ gpc = "send"

\* C8: if the consumer stops receiving, the goroutine eventually terminates
\* and the response body is eventually closed. (Stated for responses that
\* arrive whole.)
C8_AbandonedConsumerReleases ==
    (cpc = "abandoned" /\ Complete(resp)) ~> (gpc = "exited" /\ bodyClosed = 1)

\* C10: when DoQueryChan fails because the server reported a non-zero
\* errcode, the error returned is a QuickBaseError carrying the code and the
\* errtext.
C10_TypedApiError ==
    \A i \in ErrcodesBeforeRecords(resp.toks), j \in ErrtextsBeforeRecords(resp.toks) :
        (/\ resp.toks[i + 1].data # Zero
         /\ Atoi(resp.toks[i + 1].data).ok
         /\ pc = "returned")
            => ret.err = QuickBaseError(resp.toks[j + 1].data,
                                        Atoi(resp.toks[i + 1].data).n)

----------------------------------------------------------------------------
(* Claims about executeApiCall *)

DigitChar(d) == CASE d = 0 -> "0" [] d = 1 -> "1" [] d = 2 -> "2" [] d = 3 -> "3"
                  [] d = 4 -> "4" [] d = 5 -> "5" [] d = 6 -> "6" [] d = 7 -> "7"
                  [] d = 8 -> "8" [] d = 9 -> "9"

\* the decimal numeral of an integer, as the server writes an errcode
RECURSIVE Numeral(_)
Numeral(c) ==
    IF c < 0 THEN <<"-">> \o Numeral(0 - c)
    ELSE IF c < 10 THEN <<DigitChar(c)>>
    ELSE Numeral(c \div 10) \o <<DigitChar(c % 10)>>

RECURSIVE Pow10(_)
Pow10(n) == IF n = 0 THEN 1 ELSE 10 * Pow10(n - 1)

\* the integers whose numeral may fit an errcode text of the model
Codes == (0 - Pow10(MaxCodeLen))..Pow10(MaxCodeLen)

\* C9: executeApiCall returns exactly one of a document and an error: with
\* errcode "0" the document and a nil error, with any other integer c a nil
\* document and a QuickBaseError whose Code is c and whose Message is the
\* errtext.
C9_DocumentOrApiError ==
    api_pc = "done" =>
        /\ api_ret.doc.nil <=> (api_ret.err # NoErr)
        /\ (api_in.http = "ok" /\ api_in.doc.errcode = Zero)
              => api_ret = [doc |-> api_in.doc, err |-> NoErr]
        /\ \A c \in Codes \ {0} :
              (api_in.http = "ok" /\ api_in.doc.errcode = Numeral(c))
                  => api_ret = [doc |-> NilDoc,
                                err |-> [type |-> "QuickBaseError",
                                         msg |-> api_in.doc.errtext, code |-> c]]

\* C9's case: the server answered errcode 50 with a text
C9_Witness ==
    /\ api_pc = "done"
    /\ api_in.http = "ok"
    /\ api_in.doc = Doc(Code50, TextBad)
    /\ api_ret.err.type = "QuickBaseError"
    /\ api_ret.err.code = 50

----------------------------------------------------------------------------
(* What a record element says, read off its tokens *)


\* the k-th smallest member of a set of integers
Nth(S, k) == CHOOSE x \in S : Cardinality({ y \in S : y <= x }) = k

\* the end tag of the record element that starts at s
RecordEndOf(toks, s) ==
    CHOOSE e \in RecordEnds(toks) :
        e > s /\ \A g \in RecordEnds(toks) : g > s => e <= g

\* the field elements of the record element from s to e
FieldStarts(toks, s, e) ==
    { f \in (s + 1)..(e - 1) :
        toks[f].type = "StartElement" /\ Depth(toks, f - 1) = 2 }

\* the end tag of the field element that starts at f
FieldEndOf(toks, f) ==
    CHOOSE g \in (f + 1)..Len(toks) :
        Depth(toks, g) = 2 /\ \A h \in (f + 1)..(g - 1) : Depth(toks, h) > 2

\* the elements inside the field element that starts at f
Nested(toks, f) ==
    { j \in (f + 1)..(FieldEndOf(toks, f) - 1) : toks[j].type = "StartElement" }

\* the field's text: its fragments in document order, a carriage return at
\* each BR
RECURSIVE FieldText(_, _, _)
FieldText(toks, j, g) ==
    IF j >= g THEN <<>>
    ELSE (IF toks[j].type = "CharData" /\ Depth(toks, j - 1) = 3 THEN toks[j].data
          ELSE IF toks[j] = StartElement("BR") /\ Depth(toks, j - 1) = 3 THEN <<CR>>
          ELSE <<>>)
         \o FieldText(toks, j + 1, g)

FieldValue(toks, f) == FieldText(toks, f + 1, FieldEndOf(toks, f))

\* the record the element from s says: field name to field value
RecordOf(toks, s) ==
    LET fs == FieldStarts(toks, s, RecordEndOf(toks, s))
    IN  [n \in { toks[f].name : f \in fs } |->
            FieldValue(toks, CHOOSE f \in fs : toks[f].name = n)]

\* the record element the i-th received record was completed by
ElementOf(i) == Nth(RecordStarts(resp.toks), received[i].ord)

HasBR(toks, s) ==
    \E f \in FieldStarts(toks, s, RecordEndOf(toks, s)) :
        \E j \in Nested(toks, f) : toks[j].name = "BR"

Plain(toks, s) ==
    \A f \in FieldStarts(toks, s, RecordEndOf(toks, s)) : Nested(toks, f) = {}

----------------------------------------------------------------------------
(* Further claims about DoQueryChan *)

\* C11: for a field whose content is text fragments interleaved with BR
\* elements, the emitted record maps the field's tag name to the fragments
\* joined by a carriage return at each BR, and holds no key the BR elements
\* caused.
C11_BRInField ==
    \A i \in 1..Len(received) :
        HasBR(resp.toks, ElementOf(i)) =>
            LET s == ElementOf(i)
                m == received[i].seen
            IN  /\ \A f \in FieldStarts(resp.toks, s, RecordEndOf(resp.toks, s)) :
                      /\ resp.toks[f].name \in DOMAIN m
                      /\ m[resp.toks[f].name] = FieldValue(resp.toks, f)
                /\ "BR" \notin DOMAIN m
                /\ "" \notin DOMAIN m

\* C14: a token error that is not io.EOF, met anywhere while DoQueryChan
\* consumes the response, ends token reading and is surfaced: neither task
\* goes on asking the decoder for tokens.
C14_TokenErrorIsFatal ==
    /\ pc # "spin"
    /\ gpc # "spin"
    /\ (resp.term = "error" /\ pos = Len(resp.toks) /\ pc = "returned" /\ ~ret.records)
          => ret.err # NoErr

\* C18: when every record element holds distinct plain-text fields, the k-th
\* record sent holds, at that moment, exactly the fields of the k-th record
\* element.
C18_RecordIsItsElement ==
    \A i \in 1..Len(received) :
        (\A k \in 1..i : Plain(resp.toks, ElementOf(k)))
            => received[i].seen = RecordOf(resp.toks, ElementOf(i))

\* C17: the token stream is read by one task at a time: the calling task up
\* to the first record start tag, the goroutine alone after it, and the
\* hand-off happens at most once.
C17_SingleReader ==
    /\ [](/\ (gpc # "none") <=> (\E f \in RecordStarts(resp.toks) : f <= pos)
          /\ gpc # "none" => (pc = "returned" /\ ret.records /\ Len(heap) = 1 /\ record = 1))
    /\ [][pos' # pos =>
            IF gpc = "none"
            THEN pc \in {"outer", "inner"} /\ \A f \in RecordStarts(resp.toks) : pos' <= f
            ELSE gpc = "read"]_vars
    /\ [][gpc # "none" => (gpc' # "none" /\ pc' = pc /\ record' = record)]_vars

\* C17's case: after the hand-off the goroutine has read on, past a received
\* record and into the next one
C17_Witness ==
    /\ pc = "returned"
    /\ gpc = "read"
    /\ Len(received) = 1
    /\ in_record
    /\ \E f \in RecordStarts(resp.toks) : \E g \in RecordStarts(resp.toks) : f < g /\ g < pos

\* C19: the channel is closed at most once, and once it is closed no record
\* is sent on it and no token is read.
C19_ClosedOnce ==
    /\ [](closeCount <= 1)
    /\ [][closeCount > 0 =>
            (/\ pos' = pos
             /\ received' = received
             /\ completed' = completed
             /\ closeCount' = closeCount
             /\ gpc' = gpc)]_vars

\* C19's case: the channel was closed at a stray element with tokens still
\* unread, and the consumer has seen the end
C19_Witness ==
    /\ closeCount = 1
    /\ gpc = "exited"
    /\ pos < Len(resp.toks)
    /\ Len(received) >= 1
    /\ cpc = "closed"

----------------------------------------------------------------------------
(* What DoQuery's document says, read off its nodes *)

\* a Go map read: a key that is not in the map reads as ""
MapGet(m, key) == IF key \in DOMAIN m THEN m[key] ELSE <<>>

\* the field elements of a record node
Fields(rec) == { j \in 1..Len(rec.children) : rec.children[j].type = "NT_ELEMENT" }

IsBR(node) == node.type = "NT_ELEMENT" /\ node.name = "BR"

\* the field holds text fragments and BR elements only
TextAndBR(field) ==
    \A k \in 1..Len(field.children) :
        field.children[k].type = "NT_TEXT" \/ IsBR(field.children[k])

\* the fragments of a field in document order, a carriage return at each BR
RECURSIVE Fragments(_, _)
Fragments(field, k) ==
    IF k > Len(field.children) THEN <<>>
    ELSE (IF IsBR(field.children[k]) THEN <<CR>> ELSE field.children[k].value)
             \o Fragments(field, k + 1)

\* some field of some record holds an element other than BR
OtherTag(nodes) ==
    \E i \in 1..Len(nodes) : \E j \in Fields(nodes[i]) :
        \E k \in 1..Len(nodes[i].children[j].children) :
            LET g == nodes[i].children[j].children[k]
            IN  g.type = "NT_ELEMENT" /\ g.name # "BR"

\* the labels of a record are all different
DistinctLabels(rec) ==
    \A j1, j2 \in Fields(rec) : rec.children[j1].name = rec.children[j2].name => j1 = j2

QueryDone == q_pc = "done"
QuerySucceeded == QueryDone /\ q_ret.err = NoErr
QueryCallSucceeded == executeApiCall([http |-> q_in.http, doc |-> q_in.doc]).err = NoErr

\* C12: in DoQuery the value of every field of text fragments and BR elements
\* is its fragments in document order with one carriage return at each BR,
\* and a field holding any other element makes DoQuery return an error and
\* nil records.
C12_FieldIsItsFragments ==
    /\ QuerySucceeded =>
           /\ Len(q_ret.records) = Len(q_in.records)
           /\ \A i \in 1..Len(q_in.records) : \A j \in Fields(q_in.records[i]) :
                  LET field == q_in.records[i].children[j]
                  IN  TextAndBR(field) =>
                          MapGet(q_ret.records[i], field.name) = Fragments(field, 1)
    /\ (QueryDone /\ OtherTag(q_in.records)) =>
           (q_ret.err # NoErr /\ q_ret.records = <<>>)

\* C12 on records whose labels are all different: this part holds
C12_WithDistinctLabels ==
    /\ QuerySucceeded =>
           /\ Len(q_ret.records) = Len(q_in.records)
           /\ \A i \in 1..Len(q_in.records) :
                  DistinctLabels(q_in.records[i]) =>
                      \A j \in Fields(q_in.records[i]) :
                          LET field == q_in.records[i].children[j]
                          IN  TextAndBR(field) =>
                                  MapGet(q_ret.records[i], field.name) = Fragments(field, 1)
    /\ (QueryDone /\ OtherTag(q_in.records)) =>
           (q_ret.err # NoErr /\ q_ret.records = <<>>)
    /\ (QueryDone /\ QueryCallSucceeded /\ q_in.records = <<QTag>>) =>
           q_ret.err = ErrorfTag("i", "a")

\* C13: in DoQuery, when two fields of one record have the same label, the
\* map's value for the label is the later field's value alone.
C13_LaterFieldOverwrites ==
    QuerySucceeded =>
        \A i \in 1..Len(q_in.records) : \A j1, j2 \in Fields(q_in.records[i]) :
            LET earlier == q_in.records[i].children[j1]
                later == q_in.records[i].children[j2]
            IN  (/\ j1 < j2
                 /\ earlier.name = later.name
                 /\ \A j3 \in Fields(q_in.records[i]) :
                        q_in.records[i].children[j3].name = later.name => j3 <= j2)
                    => MapGet(q_ret.records[i], later.name) = Fragments(later, 1)

\* C15: a non-streaming operation that returns a non-nil error returns the
\* zero value in every other result: DoQuery no records, GetAppDTMInfo no
\* timestamp, no schema modification and no table modification.
C15_AllOrNothing ==
    /\ (q_pc = "done" /\ q_ret.err # NoErr) => q_ret.records = <<>>
    /\ (d_pc = "done" /\ d_ret.err # NoErr) => d_ret = [DTMZero EXCEPT !.err = d_ret.err]

\* C15 for DoQuery alone: this part holds
C15_DoQueryAllOrNothing ==
    (q_pc = "done" /\ q_ret.err # NoErr) => q_ret.records = <<>>

\* GetAppDTMInfo fails with nothing set only when the failure comes no later
\* than RequestTime
C15_DTMFailsEarly ==
    (d_pc = "done" /\ d_ret.err # NoErr /\ d_ret = [DTMZero EXCEPT !.err = d_ret.err])
        => \/ d_in.url = "bad"
           \/ executeApiCall([http |-> d_in.http, doc |-> d_in.doc]).err # NoErr
           \/ selectNodeToTime(d_in.RequestTime, "RequestTime").err # NoErr

----------------------------------------------------------------------------
(* Two runs of DoQueryChan on one response *)

\* the maps the goroutine sends from token j on, each as it is when it is
\* sent: what a consumer reads who reads every map as soon as it receives it
RECURSIVE SentFrom(_, _, _, _, _, _)
SentFrom(toks, j, m, field, data, inrec) ==
    IF j > Len(toks) THEN <<>>
    ELSE LET t == RecordTask(m, field, data, inrec, toks[j])
         IN  IF t.ctl = "close" THEN <<>>
             ELSE (IF t.ctl = "send" THEN <<t.m>> ELSE <<>>)
                      \o SentFrom(toks, j + 1, t.m, t.last_field, t.last_data, t.in_record)

PromptRun(r) ==
    IF RecordStarts(r.toks) = {} THEN <<>>
    ELSE SentFrom(r.toks, Nth(RecordStarts(r.toks), 1) + 1, EmptyMap, "", <<>>, TRUE)

\* every run hands the consumer the maps of the prompt run, in its order
ReceivedAsPromptRun ==
    /\ Len(received) <= Len(PromptRun(resp))
    /\ \A i \in 1..Len(received) : received[i].seen = PromptRun(resp)[i]

\* C16: two runs of DoQueryChan on the same response give the consumer the
\* same records with the same content when it reads them, in the same order,
\* whatever the interleaving: what this run's consumer has read is what the
\* consumer of the prompt run on this response reads.
C16_RunsObserveTheSame ==
    /\ Len(observed) <= Len(PromptRun(resp))
    /\ \A i \in 1..Len(observed) : observed[i] = PromptRun(resp)[i]

\* a run whose consumer has read every record as the prompt run does
PromptRunHappens ==
    /\ Len(observed) = 2
    /\ cpc = "closed"
    /\ observed = PromptRun(resp)
====
